---------------------------- MODULE Spec2Model ----------------------------
(***************************************************************************)
(* A model of delphin/tdl.py: the TDL term/structure classes (AVM,         *)
(* ConsList, DiffList, Conjunction) and the token-stream recursive-descent *)
(* parser (_parse_tdl and the functions it calls).                         *)
(*                                                                         *)
(* Python values are records tagged by a "kind" field.  A feature path     *)
(* ('REST.REST.FIRST') is the sequence of its segments; joining with '.'   *)
(* and FeatureStructure's split on '.' are the two directions of that      *)
(* representation.  A raised exception is a result record whose res field  *)
(* names the exception class.                                              *)
(***************************************************************************)
EXTENDS Integers, Sequences, FiniteSets, TLC

VARIABLES
    cl,          \* the ConsList under test: [avm, null, last_path, terminated]
    cl_values,   \* the values its constructor was given
    cl_end,      \* the end its constructor was given
    cl_res,      \* outcome of the last call on it: "ok" or an exception class
    cl_calls,    \* number of calls made on it after construction
    cl_prev,     \* the ConsList as it was before the last call
    cl_op,       \* the last call: "init", "append" or "terminate"
    dl,          \* the DiffList under test, an AVM value
    dl_values,   \* the values its constructor was given
    dl_out,      \* what values() gave: [res, vals]
    dl_op,       \* the last call: "init" or "values"
    cj,          \* the Conjunction under test
    cj_arg,      \* the argument of the last call on it
    cj_res,      \* outcome of the last call on it
    cj_prev,     \* the Conjunction as it was before the last call
    cj_op,       \* the last call: "init", "add" or "string"
    cj_calls,    \* number of calls made on it after construction
    l_elems,     \* the elements of the list literal under test
    l_form,      \* how the literal ends: "closed", "ellipsis" or "dotted"
    l_toks,      \* the tokens that follow the opening '<'
    l_out,       \* what _parse_tdl_list gave for them
    l_op,        \* "init", "parsed" once _parse_tdl_list has run
    tokens,      \* the tokens _lex gives for the source being parsed
    pos,         \* position of _parse_tdl in them
    events,      \* what _parse_tdl has yielded so far
    spans,       \* for each event, the positions <<first, after>> of its tokens
    pstatus,     \* "running", "done" (StopIteration) or "error"
    perr,        \* the exception _parse_tdl raised, "" when none
    mc_in,       \* the (tag, paths) pairs given to _make_coreferences
    mc_out,      \* what _make_coreferences gave for them
    mc_op,       \* "init", "made" once _make_coreferences has run
    lx_src,      \* the lines of the source given to _lex
    lx_out,      \* what the last step of the generator _lex gave, and where it stands
    lx_toks,     \* the tokens _lex has yielded so far
    lx_op        \* "init", then "yield", "end" or "fail" after the last step

consVars == <<cl, cl_values, cl_end, cl_res, cl_calls, cl_prev, cl_op>>
diffVars == <<dl, dl_values, dl_out, dl_op>>
conjVars == <<cj, cj_arg, cj_res, cj_prev, cj_op, cj_calls>>
listVars == <<l_elems, l_form, l_toks, l_out, l_op>>
parseVars == <<tokens, pos, events, spans, pstatus, perr>>
corefVars == <<mc_in, mc_out, mc_op>>
lexVars == <<lx_src, lx_out, lx_toks, lx_op>>

vars == <<consVars, diffVars, conjVars, listVars, parseVars, corefVars, lexVars>>

---------------------------------------------------------------------------
(* Bounds of the model *)

MaxValues == 3      \* longest list of values given to a constructor
MaxCalls == 2       \* calls made on a ConsList after its construction
MaxTerms == 2       \* longest list of terms given to Conjunction(...)
MaxAdds == 2        \* calls made on a Conjunction after its construction
MaxElems == 3       \* most elements of a list literal
MaxBody == 5        \* most tokens of a definition body drawn freely
MaxChunks == 3      \* most terms of a definition body built from terms
MaxTail == 3        \* most tokens after the conjunction of a definition
MaxAffixes == 2     \* most (match replacement) subpatterns of an inflectional rule
MaxComments == 2
MaxItems == 3
MaxPieces == 4
MaxLines == 3
MaxCorefs == 3      \* most (tag, paths) pairs given to _make_coreferences

---------------------------------------------------------------------------
(* Module constants, tdl.py lines 32-37 *)

LIST_TYPE == "*list*"
EMPTY_LIST_TYPE == "*null*"
LIST_HEAD == "FIRST"
LIST_TAIL == "REST"
DIFF_LIST_LIST == "LIST"
DIFF_LIST_LAST == "LAST"

---------------------------------------------------------------------------
(* Python values *)

PyStr(s) == [kind |-> "str", s |-> s]
PyNone == [kind |-> "None"]

\* Terms; docstring is None or a str (Term.__init__).
TypeIdentifier(s, doc) == [kind |-> "TypeIdentifier", s |-> s, docstring |-> doc]
String(s, doc) == [kind |-> "String", s |-> s, docstring |-> doc]
Regex(s, doc) == [kind |-> "Regex", s |-> s, docstring |-> doc]
Coreference(id, doc) == [kind |-> "Coreference", identifier |-> id, docstring |-> doc]

\* The identifier of Coreference(None); a tag read from the source starts
\* with '#'.
NoTag == "None"

\* An AVM whose _avm is featvals: the sequence of its (feature, value) items
\* in insertion order; null says that _avm is None.  cls is the class of the
\* object: AVM, ConsList or DiffList.
AVMDoc(featvals, doc) ==
    [kind |-> "AVM", cls |-> "AVM", null |-> FALSE, avm |-> featvals, docstring |-> doc]

\* AVM(), also AVM.default()
AVMOf(featvals) == AVMDoc(featvals, PyNone)

IsStrLike(v) == v.kind \in {"str", "TypeIdentifier", "String", "Regex"}

\* Python's v == s for a str s: TypeTerm subclasses str and compares as one.
PyEqStr(v, s) == IsStrLike(v) /\ v.s = s

\* isinstance(v, Term)
IsTerm(v) == v.kind \in {"TypeIdentifier", "String", "Regex", "AVM", "Coreference"}

\* A Conjunction object whose _terms is terms.
ConjOf(terms) == [kind |-> "Conjunction", terms |-> terms]

---------------------------------------------------------------------------
(* delphin.tfs.FeatureStructure: item assignment and lookup by dotted path *)

HasKey(featvals, k) == \E i \in 1..Len(featvals) : featvals[i].k = k

Lookup(featvals, k) ==
    featvals[CHOOSE i \in 1..Len(featvals) : featvals[i].k = k].v

Store(featvals, k, v) ==
    IF HasKey(featvals, k)
    THEN [i \in 1..Len(featvals) |->
            IF featvals[i].k = k THEN [k |-> k, v |-> v] ELSE featvals[i]]
    ELSE Append(featvals, [k |-> k, v |-> v])

\* The value an assignment below feature k descends into: the value at k,
\* AVM.default() when k is missing.
SubOf(featvals, k) ==
    IF HasKey(featvals, k) THEN Lookup(featvals, k) ELSE AVMOf(<<>>)

RECURSIVE SetItem(_, _, _)

\* The feature map after the value at k took the assignment r.
SetItemStore(featvals, k, r) ==
    IF r.res # "ok"
    THEN [res |-> r.res, avm |-> featvals]
    ELSE [res |-> "ok", avm |-> Store(featvals, k, AVMOf(r.avm))]

\* The assignment of val at path below the value sub found at path[1]; a
\* value that is not an AVM cannot be assigned into.
SetItemInto(featvals, path, val, sub) ==
    IF sub.kind # "AVM" \/ sub.null
    THEN [res |-> "TypeError", avm |-> featvals]
    ELSE SetItemStore(featvals, path[1], SetItem(sub.avm, Tail(path), val))

\* self[path] = val on the feature map featvals; a missing intermediate
\* feature is created as AVM.default().
SetItem(featvals, path, val) ==
    IF Len(path) = 1
    THEN [res |-> "ok", avm |-> Store(featvals, path[1], val)]
    ELSE SetItemInto(featvals, path, val, SubOf(featvals, path[1]))

RECURSIVE GetItem(_, _)

\* The lookup of path, sub being the value found at path[1].
GetItemIn(sub, path) ==
    IF Len(path) = 1
    THEN [res |-> "ok", v |-> sub]
    ELSE IF sub.kind # "AVM" \/ sub.null
    THEN [res |-> "TypeError", v |-> PyNone]
    ELSE GetItem(sub.avm, Tail(path))

\* self[path]: [res |-> "ok", v |-> value], or the exception raised.
GetItem(featvals, path) ==
    IF ~HasKey(featvals, path[1])
    THEN [res |-> "KeyError", v |-> PyNone]
    ELSE GetItemIn(Lookup(featvals, path[1]), path)

\* The default of get: None for a missing key.
GetDefault(r) ==
    IF r.res = "KeyError" THEN [res |-> "ok", v |-> PyNone] ELSE r

\* self.get(key): the value, None when the key is missing.
Get(featvals, path) == GetDefault(GetItem(featvals, path))

---------------------------------------------------------------------------
(* ConsList, tdl.py lines 136-200 *)

\* The object after super().__init__ and lines 159-162.
ConsNewDoc(doc) ==
    [kind |-> "AVM", cls |-> "ConsList", null |-> FALSE, avm |-> <<>>,
     docstring |-> doc, last_path |-> <<>>, terminated |-> FALSE]

ConsNew == ConsNewDoc(PyNone)

\* Lines 178-179 once the assignment r of line 178 is made: _last_path
\* moves one REST on.
ConsStored(c, r) ==
    IF r.res # "ok"
    THEN [res |-> r.res, cl |-> c]
    ELSE [res |-> "ok",
          cl |-> [c EXCEPT !.avm = r.avm,
                           !.last_path = Append(c.last_path, LIST_TAIL)]]

\* ConsAppend without the test of self.terminated in line 174.
ConsAppend_IgnoreTerminated(c, value) ==
    IF ~c.null
    THEN ConsStored(c, SetItem(c.avm, Append(c.last_path, LIST_HEAD), value))
    ELSE [res |-> "TdlError('Cannot append to a closed list.')", cl |-> c]

\* ConsList.append(value)
ConsAppend(c, value) ==
    IF ~c.null /\ ~c.terminated
    THEN ConsStored(c, SetItem(c.avm, Append(c.last_path, LIST_HEAD), value))
    ELSE [res |-> "TdlError('Cannot append to a closed list.')", cl |-> c]

\* Line 200 once the assignment r of line 187 is made.
ConsEnded(c, r, terminated) ==
    IF r.res # "ok"
    THEN [res |-> r.res, cl |-> c]
    ELSE [res |-> "ok", cl |-> [c EXCEPT !.avm = r.avm, !.terminated = terminated]]

\* ConsTerminate with line 200 setting terminated to True whatever the end.
ConsTerminate_AlwaysClosed(c, end) ==
    IF c.last_path # <<>>
    THEN ConsEnded(c, SetItem(c.avm, Append(c.last_path, LIST_TAIL), end), TRUE)
    ELSE IF PyEqStr(end, EMPTY_LIST_TYPE) /\ ~c.null /\ Len(c.avm) = 0
    THEN [res |-> "ok", cl |-> [c EXCEPT !.null = TRUE, !.terminated = TRUE]]
    ELSE IF PyEqStr(end, LIST_TYPE)
    THEN [res |-> "ok", cl |-> [c EXCEPT !.terminated = TRUE]]
    ELSE [res |-> "TdlError('Empty list must be *list* or *null*')", cl |-> c]

\* ConsList.terminate(end)
ConsTerminate(c, end) ==
    IF c.last_path # <<>>
    THEN ConsEnded(c, SetItem(c.avm, Append(c.last_path, LIST_TAIL), end),
                   ~PyEqStr(end, LIST_TYPE))
    ELSE IF PyEqStr(end, EMPTY_LIST_TYPE)
    THEN IF c.null
         THEN [res |-> "TypeError", cl |-> c]          \* len(None)
         ELSE IF Len(c.avm) # 0
         THEN [res |-> "AssertionError", cl |-> c]
         ELSE [res |-> "ok",
               cl |-> [c EXCEPT !.null = TRUE, !.terminated = TRUE]]
    ELSE IF PyEqStr(end, LIST_TYPE)
    THEN [res |-> "ok", cl |-> [c EXCEPT !.terminated = FALSE]]
    ELSE [res |-> "TdlError('Empty list must be *list* or *null*')", cl |-> c]

RECURSIVE ConsAppendAll(_, _)

\* the loop of lines 163-164 after the append r of the first of values
ConsAppendRest(r, values) ==
    IF r.res # "ok" THEN r ELSE ConsAppendAll(r.cl, Tail(values))

\* the loop of lines 163-164
ConsAppendAll(c, values) ==
    IF values = <<>>
    THEN [res |-> "ok", cl |-> c]
    ELSE ConsAppendRest(ConsAppend(c, Head(values)), values)

\* line 165, r being what the loop before gave
ConsInitEnd(r, end) ==
    IF r.res # "ok" THEN r ELSE ConsTerminate(r.cl, end)

\* ConsList(values, end, docstring)
ConsInitDoc(values, end, doc) ==
    ConsInitEnd(ConsAppendAll(ConsNewDoc(doc), values), end)

\* ConsList(values, end)
ConsInit(values, end) == ConsInitDoc(values, end, PyNone)

---------------------------------------------------------------------------
(* Conjunction, tdl.py lines 252-293 *)

RECURSIVE ConjAdd(_, _)
RECURSIVE ConjAddAll(_, _)

\* ConjAdd without the flattening branch of lines 270-272: a Conjunction is
\* appended as if it were a term.
ConjAdd_NoFlatten(terms, term) ==
    IF term.kind = "Conjunction" \/ IsTerm(term)
    THEN [res |-> "ok", terms |-> Append(terms, term)]
    ELSE [res |-> "TypeError('Not a Term or Conjunction')", terms |-> terms]

\* Conjunction.add(term) on the term list terms: [res, terms]
ConjAdd(terms, term) ==
    IF term.kind = "Conjunction"
    THEN ConjAddAll(terms, term.terms)
    ELSE IF IsTerm(term)
    THEN [res |-> "ok", terms |-> Append(terms, term)]
    ELSE [res |-> "TypeError('Not a Term or Conjunction')", terms |-> terms]

\* the rest of the loop after the add r of the first of items
ConjAddRest(r, items) ==
    IF r.res # "ok" THEN r ELSE ConjAddAll(r.terms, Tail(items))

\* for term in items: self.add(term); the terms added before a failing
\* add stay in the list.
ConjAddAll(terms, items) ==
    IF items = <<>>
    THEN [res |-> "ok", terms |-> terms]
    ELSE ConjAddRest(ConjAdd(terms, Head(items)), items)

\* Conjunction(terms)
ConjInit(items) == ConjAddAll(<<>>, items)

\* Conjunction.string(): [res, v].  Line 291 tests isinstance(t, String);
\* no name t is bound in the method or in the module, so the first
\* iteration of the loop raises NameError.
ConjString(terms) ==
    IF terms = <<>>
    THEN [res |-> "ok", v |-> PyNone]
    ELSE [res |-> "NameError", v |-> PyNone]

---------------------------------------------------------------------------
(* DiffList, tdl.py lines 203-240 *)

\* Lines 223-226: the AVM built from the pairs (LIST, dl_list) and
\* (LAST, dl_last), as a DiffList.
DiffListOf(dl_list, dl_last, doc) ==
    [AVMDoc(SetItem(SetItem(<<>>, <<DIFF_LIST_LIST>>, dl_list).avm,
                    <<DIFF_LIST_LAST>>, dl_last).avm, doc)
       EXCEPT !.cls = "DiffList"]

\* Lines 216-226 for a non-empty values, tmplist being the ConsList of
\* line 216.
DiffInitNonEmpty(tmplist, cr, doc) ==
    IF tmplist.res # "ok"
    THEN [res |-> tmplist.res, v |-> PyNone]
    ELSE [res |-> "ok",
          v |-> DiffListOf(AVMOf(tmplist.cl.avm), ConjOf(ConjInit(<<cr>>).terms), doc)]

\* Lines 213-226, cr being the Coreference of line 213.
DiffInitWith(values, cr, doc) ==
    IF values # <<>>
    THEN DiffInitNonEmpty(ConsInit(values, cr), cr, doc)
    ELSE [res |-> "ok",
          v |-> DiffListOf(ConjOf(ConjInit(<<cr>>).terms),
                           ConjOf(ConjInit(<<cr>>).terms), doc)]

\* DiffList(values, docstring): [res, v], v the DiffList
DiffInitDoc(values, doc) == DiffInitWith(values, Coreference(NoTag, PyNone), doc)

\* DiffList(values)
DiffInit(values) == DiffInitDoc(values, PyNone)

RECURSIVE CollectListItems(_)

\* Lines 236-239: the pair for head before the pairs rest of the tail, each
\* path of which gets REST in front.
CollectPrefix(head, rest) ==
    IF rest.res # "ok"
    THEN rest
    ELSE [res |-> "ok",
          items |-> <<[path |-> <<LIST_HEAD>>, val |-> head.v]>> \o
                    [i \in 1..Len(rest.items) |->
                       [path |-> <<LIST_TAIL>> \o rest.items[i].path,
                        val |-> rest.items[i].val]]]

\* Lines 235-239, head being d.get(LIST_HEAD).
CollectFrom(d, head) ==
    IF head.v.kind = "None"
    THEN [res |-> "ok", items |-> <<>>]
    ELSE CollectPrefix(head, CollectListItems(Get(d.avm, <<LIST_TAIL>>).v))

\* _collect_list_items(d): [res, items], items the (path, value) pairs.
\* d.get is FeatureStructure's: a d that is no AVM has no get.
CollectListItems(d) ==
    IF d.kind = "None"
    THEN [res |-> "ok", items |-> <<>>]
    ELSE IF d.kind # "AVM"
    THEN [res |-> "AttributeError", items |-> <<>>]
    ELSE IF d.null
    THEN [res |-> "TypeError", items |-> <<>>]
    ELSE CollectFrom(d, Get(d.avm, <<LIST_HEAD>>))

\* Line 232: the values of the pairs r.
ValuesOf(r) ==
    [res |-> r.res, vals |-> [i \in 1..Len(r.items) |-> r.items[i].val]]

\* DiffList.values() on the DiffList whose feature map is featvals
DiffValues(featvals) ==
    ValuesOf(CollectListItems(Get(featvals, <<DIFF_LIST_LIST>>).v))

---------------------------------------------------------------------------
(* Type, tdl.py lines 296-312 *)

\* Type(identifier, conjunction): coreferences and docstring take their
\* defaults, list(None or []) and None.
TypeOf(identifier, conjunction) ==
    [kind |-> "Type", identifier |-> identifier, conjunction |-> conjunction,
     coreferences |-> <<>>, docstring |-> PyNone]

\* Conjunction.types()
Types(terms) ==
    SelectSeq(terms, LAMBDA t : t.kind \in {"TypeIdentifier", "String", "Regex"})

---------------------------------------------------------------------------
(* Tokens and the lookahead iterator, tdl.py lines 539-558 *)

\* A token (gid, token): gid is the group of _tdl_lex_re that matched.
Tok(gid, tok) == [gid |-> gid, tok |-> tok]

\* _is_comment
IsComment(t) == 2 <= t.gid /\ t.gid <= 3

\* The token stream is the sequence toks and the position p of the next
\* token the iterator will give.  The index of the first token at or after
\* p that is no comment, Len(toks) + 1 when there is none.
RECURSIVE NextSig(_, _)
NextSig(toks, p) ==
    IF p > Len(toks) THEN Len(toks) + 1
    ELSE IF IsComment(toks[p]) THEN NextSig(toks, p + 1)
    ELSE p

\* What a parsing function gives: res is "ok" or the exception raised, v the
\* value returned, p the position of the stream afterwards and nextgid the
\* gid of the token at p.
Ret(v, p, nextgid) == [res |-> "ok", v |-> v, p |-> p, nextgid |-> nextgid]
Raise(exc) == [res |-> exc, v |-> PyNone, p |-> 0, nextgid |-> 0]

\* tokens.next(): the token at p, comments included.
TokNext(toks, p) ==
    IF p > Len(toks) THEN Raise("StopIteration")
    ELSE Ret(toks[p], p + 1, 0)

\* The token at index i with the stream left at i0, StopIteration when
\* there is no such token.
PeekAt(toks, i0, i) ==
    IF i > Len(toks) THEN Raise("StopIteration")
    ELSE Ret(toks[i], i0, toks[i0].gid)

\* _peek(tokens, n): the n-th token after the comments are dropped, n being
\* 0 or 1.
Peek(toks, p, n) ==
    PeekAt(toks, NextSig(toks, p),
           IF n = 0 THEN NextSig(toks, p) ELSE NextSig(toks, NextSig(toks, p) + 1))

\* The token at i0 popped and the one at i1 peeked.
ShiftAt(toks, i0, i1) ==
    IF i0 > Len(toks) \/ i1 > Len(toks) THEN Raise("StopIteration")
    ELSE Ret(toks[i0], i1, toks[i1].gid)

\* _shift without skip=_is_comment: pops the token at p and peeks the one
\* after it, comments included.
Shift_KeepComments(toks, p) == ShiftAt(toks, p, p + 1)

\* _shift(tokens): pops the next token that is no comment and peeks the gid
\* of the one after it, which must exist.
Shift(toks, p) ==
    ShiftAt(toks, NextSig(toks, p), NextSig(toks, NextSig(toks, p) + 1))

---------------------------------------------------------------------------
(* The recursive-descent parser, tdl.py lines 682-869 *)

RECURSIVE AVMFromFeatvals(_, _)

\* the rest of the pairs after the assignment r of the first
AVMFromRest(r, featvals) ==
    IF r.res # "ok" THEN r ELSE AVMFromFeatvals(r.avm, Tail(featvals))

\* FeatureStructure.__init__: self[feat] = val for each pair of featvals,
\* starting from the feature map avm.
AVMFromFeatvals(avm, featvals) ==
    IF featvals = <<>> THEN [res |-> "ok", avm |-> avm]
    ELSE AVMFromRest(SetItem(avm, Head(featvals).attr, Head(featvals).val), featvals)

\* Each call of a parsing function is written once and its result handed
\* to the operator that models the statements after the call.

RECURSIVE ParseTerm(_, _)
RECURSIVE ParseConjTerms(_, _, _)
RECURSIVE ParsePath(_, _, _, _)
RECURSIVE ParseFeats(_, _, _)
RECURSIVE ParseListItems(_, _, _, _, _)

\* _parse_tdl_conjunction
ParseConjunction(toks, p) == ParseConjTerms(toks, p, <<>>)

\* lines 753-758, t being what _parse_tdl_term gave
ConjAfterTerm(toks, t, terms) ==
    IF t.res # "ok" THEN t
    ELSE IF t.nextgid = 11
    THEN ParseConjTerms(toks, t.p + 1, Append(terms, t.v))
    ELSE Ret(ConjOf(ConjInit(Append(terms, t.v)).terms), t.p, t.nextgid)

\* the loop of lines 751-757, terms being the terms read so far
ParseConjTerms(toks, p, terms) == ConjAfterTerm(toks, ParseTerm(toks, p), terms)

\* the loop of lines 809-813: path is the attribute path read so far, p the
\* position and nextgid the gid of the token there
ParsePath(toks, p, nextgid, path) ==
    IF nextgid # 10 THEN Ret(path, p, nextgid)
    ELSE LET s == Shift(toks, p + 1)
         IN IF s.res # "ok" THEN s
            ELSE IF s.v.gid # 24 THEN Raise("AssertionError")
            ELSE ParsePath(toks, s.p, s.nextgid, Append(path, s.v.tok))

\* lines 817-827, c being the conjunction read for the attribute attr
FeatsAfterValue(toks, attr, c, feats) ==
    IF c.res # "ok" THEN c
    ELSE IF c.nextgid = 12
    THEN LET s2 == Shift(toks, c.p + 1)
         IN IF s2.res # "ok" THEN s2
            ELSE ParseFeats(toks, s2, Append(feats, [attr |-> attr, val |-> c.v]))
    ELSE IF c.nextgid = 16
    THEN LET s2 == Shift(toks, c.p)
         IN IF s2.res # "ok" THEN s2
            ELSE Ret(Append(feats, [attr |-> attr, val |-> c.v]), s2.p, s2.nextgid)
    ELSE Raise("TdlParsingError('Expected: , or ]', line_number)")

\* lines 814-816, path being the attribute path read
FeatsAfterPath(toks, path, feats) ==
    IF path.res # "ok" THEN path
    ELSE FeatsAfterValue(toks, path.v, ParseConjunction(toks, path.p), feats)

\* the loop of lines 804-827: s is the _shift that read the token where an
\* attribute name is expected, feats the pairs read so far
ParseFeats(toks, s, feats) ==
    IF s.v.gid # 24
    THEN Raise("TdlParsingError('Expected a feature name', line_number)")
    ELSE FeatsAfterPath(toks, ParsePath(toks, s.p, s.nextgid, <<s.v.tok>>), feats)

\* _parse_tdl_feature_structure
ParseFeatureStructure(toks, p) ==
    LET s == Shift(toks, p)
    IN IF s.res # "ok" THEN s
       ELSE IF s.v.gid # 16 THEN ParseFeats(toks, s, <<>>)
       ELSE Ret(<<>>, s.p, s.nextgid)

\* lines 861-864 after the loop, then line 869
ListClose(toks, p, break_gid, values, end) ==
    LET s == Shift(toks, p)
    IN IF s.res # "ok" THEN s
       ELSE IF s.v.gid # break_gid
       THEN Raise("TdlParsingError('Expected: end of list', line_number)")
       ELSE Ret([values |-> values, end |-> end], s.p, s.nextgid)

\* lines 852-853, e being the conjunction read after the dot
ListAfterEnd(toks, e, break_gid, values) ==
    IF e.res # "ok" THEN e
    ELSE ListClose(toks, e.p, break_gid, values, e.v)

\* lines 848-859, c being the conjunction read as a value
ListAfterValue(toks, c, break_gid, values) ==
    IF c.res # "ok" THEN c
    ELSE IF c.nextgid = 10
    THEN ListAfterEnd(toks, ParseConjunction(toks, c.p + 1), break_gid,
                      Append(values, c.v))
    ELSE IF c.nextgid = break_gid
    THEN ListClose(toks, c.p, break_gid, Append(values, c.v), PyNone)
    ELSE IF c.nextgid = 12
    THEN LET s == Shift(toks, c.p)
         IN IF s.res # "ok" THEN s
            ELSE ParseListItems(toks, s.p, s.nextgid, break_gid, Append(values, c.v))
    ELSE Raise("TdlParsingError('Expected: comma or end of list')")

\* the loop of lines 841-859: values are the values read so far, p the
\* position and nextgid the gid of the token there
ParseListItems(toks, p, nextgid, break_gid, values) ==
    IF nextgid = 9
    THEN LET s == Shift(toks, p)
         IN IF s.res # "ok" THEN s
            ELSE ListClose(toks, s.p, break_gid, values, PyStr(LIST_TYPE))
    ELSE ListAfterValue(toks, ParseConjunction(toks, p), break_gid, values)

\* _parse_tdl_list without lines 866-867: v is [values, end]
ParseListRaw(toks, p, break_gid) ==
    LET pk == Peek(toks, p, 0)
    IN IF pk.res # "ok" THEN pk
       ELSE IF pk.v.gid = break_gid
       THEN LET s == Shift(toks, pk.p)
            IN IF s.res # "ok" THEN s
               ELSE Ret([values |-> <<>>, end |-> PyNone], s.p, s.nextgid)
       ELSE ParseListItems(toks, pk.p, pk.v.gid, break_gid, <<>>)

\* lines 866-869, l being what the lines before gave
ListDefaultEnd(l) ==
    IF l.res = "ok" /\ Len(l.v.values) = 0 /\ l.v.end = PyNone
    THEN [l EXCEPT !.v.end = PyStr(EMPTY_LIST_TYPE)]
    ELSE l

\* _parse_tdl_list: v is [values, end]
ParseList(toks, p, break_gid) == ListDefaultEnd(ParseListRaw(toks, p, break_gid))

\* lines 782-783, fs being what _parse_tdl_feature_structure gave
TermAVM(fs, doc) ==
    IF fs.res # "ok" THEN fs
    ELSE LET a == AVMFromFeatvals(<<>>, fs.v)
         IN IF a.res # "ok" THEN Raise(a.res)
            ELSE Ret(AVMDoc(a.avm, doc), fs.p, fs.nextgid)

\* lines 785-786, l being what _parse_tdl_list gave
TermDiffList(l, doc) ==
    IF l.res # "ok" THEN l
    ELSE LET d == DiffInitDoc(l.v.values, doc)
         IN IF d.res # "ok" THEN Raise(d.res)
            ELSE Ret(d.v, l.p, l.nextgid)

\* lines 788-789, l being what _parse_tdl_list gave
TermConsList(l, doc) ==
    IF l.res # "ok" THEN l
    ELSE LET c == ConsInitDoc(l.v.values, l.v.end, doc)
         IN IF c.res # "ok" THEN Raise(c.res)
            ELSE Ret(c.cl, l.p, l.nextgid)

\* lines 771-797, s being the _shift that read the first token of the term
\* after its docstring
TermOf(toks, s, doc) ==
    CASE s.v.gid = 4 -> Ret(String(s.v.tok, doc), s.p, s.nextgid)
      [] s.v.gid = 5 -> Ret(TypeIdentifier(s.v.tok, doc), s.p, s.nextgid)
      [] s.v.gid = 6 -> Ret(Regex(s.v.tok, doc), s.p, s.nextgid)
      [] s.v.gid = 13 -> TermAVM(ParseFeatureStructure(toks, s.p), doc)
      [] s.v.gid = 14 -> TermDiffList(ParseList(toks, s.p, 17), doc)
      [] s.v.gid = 15 -> TermConsList(ParseList(toks, s.p, 18), doc)
      [] s.v.gid = 19 -> Ret(Coreference(s.v.tok, doc), s.p, s.nextgid)
      [] s.v.gid = 24 -> Ret(TypeIdentifier(s.v.tok, doc), s.p, s.nextgid)
      [] OTHER ->
            Raise("TdlParsingError('Expected a TDL conjunction term.', line_number)")

\* _parse_tdl_term
ParseTerm(toks, p) ==
    LET s1 == Shift(toks, p)
        hasdoc == s1.res = "ok" /\ s1.v.gid = 1
        s == IF hasdoc THEN Shift(toks, s1.p) ELSE s1
        doc == IF hasdoc THEN PyStr(s1.v.tok) ELSE PyNone
    IN IF s.res # "ok" THEN s ELSE TermOf(toks, s, doc)

\* token.split(None, 1) of an affix subpattern (line 745), for the
\* subpatterns "a b" and "!c d"
AffixSplit(tok) ==
    CASE tok = "a b" -> <<"a", "b">>
      [] tok = "!c d" -> <<"!c", "d">>
      [] OTHER -> <<tok, "">>

RECURSIVE ParseAffixPairs(_, _, _, _)
\* the loop of lines 743-746
ParseAffixPairs(toks, p, nextgid, affixes) ==
    IF nextgid # 22 THEN Ret(affixes, p, nextgid)
    ELSE LET s == Shift(toks, p)
         IN IF s.res # "ok" THEN s
            ELSE ParseAffixPairs(toks, s.p, s.nextgid,
                                 Append(affixes, AffixSplit(s.v.tok)))

\* _parse_tdl_affixes: v is [affixtype, affixes]
ParseAffixes(toks, p) ==
    LET s == Shift(toks, p)
    IN IF s.res # "ok" THEN s
       ELSE IF s.v.gid # 21 THEN Raise("AssertionError")
       ELSE LET a == ParseAffixPairs(toks, s.p, s.nextgid, <<>>)
            IN IF a.res # "ok" THEN a
               ELSE Ret([affixtype |-> s.v.tok, affixes |-> a.v], a.p, a.nextgid)

\* InflRule(identifier, affix_type, affix, terms), lines 356-359: line 357
\* calls TdlType.__init__, whose first statement (line 467) reads
\* definition.supertypes of the Conjunction it is given; Conjunction has no
\* such attribute.
InflRuleInit(identifier, affix_type, affix, terms) ==
    [res |-> "AttributeError", v |-> PyNone]

\* ParseTdlClose without the test of line 723: whatever token stands
\* after the conjunction or its docstring is taken as the end.
ParseTdlClose_NoDotTest(toks, obj, p, nextgid) ==
    LET s == Shift(toks, p)
        hasdoc == nextgid = 1
    IN IF hasdoc /\ s.res # "ok" THEN s
       ELSE IF hasdoc THEN Ret([obj EXCEPT !.docstring = PyStr(s.v.tok)], s.p + 1, 0)
       ELSE Ret(obj, p + 1, 0)

\* Lines 720-727, after obj is built: the docstring before the dot, the dot.
ParseTdlClose(toks, obj, p, nextgid) ==
    LET s == Shift(toks, p)
        hasdoc == nextgid = 1
        obj2 == IF hasdoc THEN [obj EXCEPT !.docstring = PyStr(s.v.tok)] ELSE obj
        p2 == IF hasdoc THEN s.p ELSE p
        nextgid2 == IF hasdoc THEN s.nextgid ELSE nextgid
    IN IF hasdoc /\ s.res # "ok" THEN s
       ELSE IF nextgid2 # 10
       THEN Raise("TdlParsingError('Expected: .', line_number)")
       ELSE Ret(obj2, p2 + 1, 0)

\* line 703 and what follows, c being the conjunction read after the
\* affixes a
TdlInflRule(toks, identifier, a, c) ==
    IF c.res # "ok" THEN c
    ELSE LET obj == InflRuleInit(identifier, a.v.affixtype, a.v.affixes, c.v)
         IN IF obj.res # "ok" THEN Raise(obj.res)
            ELSE ParseTdlClose(toks, obj.v, c.p, c.nextgid)

\* lines 702-703, a being what _parse_tdl_affixes gave
TdlAfterAffixes(toks, identifier, a) ==
    IF a.res # "ok" THEN a
    ELSE TdlInflRule(toks, identifier, a, ParseConjunction(toks, a.p))

\* line 715 and what follows, c being the conjunction read
TdlType(toks, identifier, c) ==
    IF c.res # "ok" THEN c
    ELSE ParseTdlClose(toks, TypeOf(identifier, c.v), c.p, c.nextgid)

\* lines 697-727: the identifier is read, s is the _shift of line 698
TdlDefinition(toks, identifier, s) ==
    IF s.res # "ok" THEN s
    ELSE IF s.v.gid = 7 /\ s.nextgid = 21
    THEN TdlAfterAffixes(toks, identifier, ParseAffixes(toks, s.p))
    ELSE IF s.v.gid = 7 \/ s.v.gid = 8
    THEN LET pk == Peek(toks, s.p, 1)
         IN IF s.nextgid = 1 /\ pk.res # "ok" THEN pk
            ELSE IF s.nextgid = 1 /\ pk.v.gid = 10
            THEN ParseTdlClose(toks, TypeOf(identifier, ConjOf(<<>>)), s.p, s.nextgid)
            ELSE TdlType(toks, identifier, ParseConjunction(toks, s.p))
    ELSE Raise("TdlParsingError('Expected: := or :+', line_number)")

\* Lines 690-732, t being the token tokens.next() gave.
TdlEvent(toks, t) ==
    CASE t.v.gid = 2 -> Ret([kind |-> "BLOCKCOMMENT", tok |-> t.v.tok], t.p, 0)
      [] t.v.gid = 3 -> Ret([kind |-> "LINECOMMENT", tok |-> t.v.tok], t.p, 0)
      [] t.v.gid = 20 -> Ret([kind |-> "LETTERSET", tok |-> t.v.tok], t.p, 0)
      [] t.v.gid = 24 -> TdlDefinition(toks, t.v.tok, Shift(toks, t.p))
      [] OTHER ->
            Raise("TdlParsingError('Syntax error; unexpected token', line_number)")

\* The loop without the try of lines 686-689: the StopIteration of
\* tokens.next() goes on to the handler of line 734.
TdlLoop_NoBreak(toks, p, t) ==
    IF t.res # "ok" THEN t ELSE TdlEvent(toks, t)

\* Lines 686-689: the loop ends when tokens.next() has nothing to give.
TdlLoop(toks, p, t) ==
    IF t.res # "ok" THEN [Raise("eof") EXCEPT !.p = p] ELSE TdlEvent(toks, t)

\* The loop reading its token with _next, which passes over comments,
\* where line 687 has tokens.next().
ParseTdlIter_SkipComments(toks, p) ==
    TdlLoop(toks, p, TokNext(toks, NextSig(toks, p)))

\* One pass of the loop of _parse_tdl (lines 685-732) with the stream at p:
\* res is "ok" with the event yielded in v, "eof" when the loop ends at
\* line 689, or the exception raised.
ParseTdlIter(toks, p) == TdlLoop(toks, p, TokNext(toks, p))

\* The handler of lines 734-735 on the outcome r of the loop.
TdlHandler(r) ==
    IF r.res = "StopIteration"
    THEN Raise("TdlParsingError('Unexpected end of input.')")
    ELSE r

\* _parse_tdl run to its next yield, its end or its exception
ParseTdlStep(toks, p) == TdlHandler(ParseTdlIter(toks, p))

---------------------------------------------------------------------------
(* Inputs *)

\* Sequences over S of length at most n.
RECURSIVE SeqsUpTo(_, _)
SeqsUpTo(S, n) ==
    IF n = 0 THEN {<<>>}
    ELSE LET shorter == SeqsUpTo(S, n - 1)
         IN shorter \cup {Append(q, x) : q \in {p \in shorter : Len(p) = n - 1}, x \in S}

\* Values a list is built from.
Elems == {TypeIdentifier("a", PyNone), TypeIdentifier("b", PyNone),
          String("s", PyNone), Coreference("#1", PyNone)}

\* Values given as the end of a ConsList: the two list types, None (what
\* _parse_tdl_list returns for a list closed without ellipsis or dot), a
\* type term and the coreference DiffList passes.
Ends == {PyStr(EMPTY_LIST_TYPE), PyStr(LIST_TYPE), PyNone,
         TypeIdentifier("t", PyNone), Coreference(NoTag, PyNone)}

---------------------------------------------------------------------------
(* The values of each group of variables while another group is under test *)

ConsIdle ==
    /\ cl = ConsNew
    /\ cl_values = <<>>
    /\ cl_end = PyNone
    /\ cl_res = "ok"
    /\ cl_calls = 0
    /\ cl_prev = ConsNew
    /\ cl_op = "none"

DiffIdle ==
    /\ dl = DiffInit(<<>>).v
    /\ dl_values = <<>>
    /\ dl_out = [res |-> "ok", vals |-> <<>>]
    /\ dl_op = "none"

ConjIdle ==
    /\ cj = ConjOf(<<>>)
    /\ cj_arg = PyNone
    /\ cj_res = [res |-> "ok", v |-> PyNone]
    /\ cj_prev = ConjOf(<<>>)
    /\ cj_op = "none"
    /\ cj_calls = 0

ListIdle ==
    /\ l_elems = <<>>
    /\ l_form = "none"
    /\ l_toks = <<>>
    /\ l_out = Raise("none")
    /\ l_op = "none"

ParseIdle ==
    /\ tokens = <<>>
    /\ pos = 1
    /\ events = <<>>
    /\ spans = <<>>
    /\ pstatus = "none"
    /\ perr = ""

CorefIdle ==
    /\ mc_in = <<>>
    /\ mc_out = [res |-> "none"]
    /\ mc_op = "none"

LexIdle ==
    /\ lx_src = <<>>
    /\ lx_out = [res |-> "none"]
    /\ lx_toks = <<>>
    /\ lx_op = "none"

---------------------------------------------------------------------------
(* Calls on one ConsList *)

ConsSpecInit ==
    /\ cl_values \in SeqsUpTo(Elems, MaxValues)
    /\ cl_end \in Ends
    /\ ConsInit(cl_values, cl_end).res = "ok"
    /\ cl = ConsInit(cl_values, cl_end).cl
    /\ cl_res = "ok"
    /\ cl_calls = 0
    /\ cl_prev = ConsNew
    /\ cl_op = "init"
    /\ DiffIdle
    /\ ConjIdle
    /\ ListIdle
    /\ ParseIdle
    /\ CorefIdle
    /\ LexIdle

CallAppend(value) ==
    /\ cl_calls < MaxCalls
    /\ LET r == ConsAppend(cl, value)
       IN /\ cl' = r.cl
          /\ cl_res' = r.res
    /\ cl_prev' = cl
    /\ cl_op' = "append"
    /\ cl_calls' = cl_calls + 1
    /\ UNCHANGED <<cl_values, cl_end, diffVars, conjVars, listVars, parseVars, corefVars, lexVars>>

CallTerminate(end) ==
    /\ cl_calls < MaxCalls
    /\ LET r == ConsTerminate(cl, end)
       IN /\ cl' = r.cl
          /\ cl_res' = r.res
    /\ cl_prev' = cl
    /\ cl_op' = "terminate"
    /\ cl_calls' = cl_calls + 1
    /\ UNCHANGED <<cl_values, cl_end, diffVars, conjVars, listVars, parseVars, corefVars, lexVars>>

ConsNext ==
    \/ \E value \in Elems : CallAppend(value)
    \/ \E end \in Ends : CallTerminate(end)

Spec == ConsSpecInit /\ [][ConsNext]_vars

---------------------------------------------------------------------------
(* Calls on one DiffList *)

DiffSpecInit ==
    /\ dl_values \in SeqsUpTo(Elems, MaxValues)
    /\ DiffInit(dl_values).res = "ok"
    /\ dl = DiffInit(dl_values).v
    /\ dl_out = [res |-> "ok", vals |-> <<>>]
    /\ dl_op = "init"
    /\ ConsIdle
    /\ ConjIdle
    /\ ListIdle
    /\ ParseIdle
    /\ CorefIdle
    /\ LexIdle

CallValues ==
    /\ dl_op = "init"
    /\ dl_out' = DiffValues(dl.avm)
    /\ dl_op' = "values"
    /\ UNCHANGED <<dl, dl_values, consVars, conjVars, listVars, parseVars, corefVars, lexVars>>

DiffNext == CallValues

DiffSpec == DiffSpecInit /\ [][DiffNext]_vars

---------------------------------------------------------------------------
(* Calls on one Conjunction *)

\* Conjunction objects passed as arguments.
ConjArgs == {ConjOf(<<>>), ConjOf(<<TypeIdentifier("a", PyNone)>>),
             ConjOf(<<String("s", PyNone), Coreference("#1", PyNone)>>)}

\* Arguments that are neither a Term nor a Conjunction.
NonTerms == {PyStr("x"), PyNone}

ConjSpecInit ==
    /\ cj_arg \in {[kind |-> "list", items |-> q] :
                      q \in SeqsUpTo(Elems \cup ConjArgs, MaxTerms)}
    /\ cj = ConjOf(ConjInit(cj_arg.items).terms)
    /\ cj_res = [res |-> "ok", v |-> PyNone]
    /\ cj_prev = ConjOf(<<>>)
    /\ cj_op = "init"
    /\ cj_calls = 0
    /\ ConsIdle
    /\ DiffIdle
    /\ ListIdle
    /\ ParseIdle
    /\ CorefIdle
    /\ LexIdle

\* cj.add(term); the argument may be cj itself.
CallAdd(term) ==
    /\ cj_calls < MaxAdds
    /\ LET r == ConjAdd(cj.terms, term)
       IN /\ cj' = ConjOf(r.terms)
          /\ cj_res' = [res |-> r.res, v |-> PyNone]
    /\ cj_arg' = term
    /\ cj_prev' = cj
    /\ cj_op' = "add"
    /\ cj_calls' = cj_calls + 1
    /\ UNCHANGED <<consVars, diffVars, listVars, parseVars, corefVars, lexVars>>

\* cj.string()
CallString ==
    /\ cj_calls < MaxAdds
    /\ cj_res' = ConjString(cj.terms)
    /\ cj_arg' = PyNone
    /\ cj_prev' = cj
    /\ cj_op' = "string"
    /\ cj_calls' = cj_calls + 1
    /\ UNCHANGED <<cj, consVars, diffVars, listVars, parseVars, corefVars, lexVars>>

ConjNext ==
    \/ \E term \in Elems \cup ConjArgs \cup NonTerms \cup {cj} : CallAdd(term)
    \/ CallString

ConjSpec == ConjSpecInit /\ [][ConjNext]_vars

---------------------------------------------------------------------------
(* Tokens of the sources parsed *)

IdA == Tok(24, "a")
IdB == Tok(24, "b")
IdT == Tok(24, "t")
StrS == Tok(4, "s")
Tag1 == Tok(19, "#1")
Tag2 == Tok(19, "#2")
OpDef == Tok(7, ":=")
OpAdd == Tok(8, ":+")
Ellipsis == Tok(9, "...")
Dot == Tok(10, ".")
Amp == Tok(11, "&")
Comma == Tok(12, ",")
AvmOpen == Tok(13, "[")
AvmClose == Tok(16, "]")
DiffOpen == Tok(14, "<!")
DiffClose == Tok(17, "!>")
ConsOpen == Tok(15, "<")
ConsClose == Tok(18, ">")
DocD == Tok(1, "doc")
AffixPrefix == Tok(21, "prefix")
AffixSuffix == Tok(21, "suffix")
SubAB == Tok(22, "a b")
SubCD == Tok(22, "!c d")
BlockComment == Tok(2, "c")
LineComment == Tok(3, "c")
LetterSet == Tok(20, "!a")

\* The concatenation of the sequences of qs, sep between each two.
RECURSIVE Join(_, _)
Join(qs, sep) ==
    IF qs = <<>> THEN <<>>
    ELSE IF Len(qs) = 1 THEN qs[1]
    ELSE qs[1] \o sep \o Join(Tail(qs), sep)

---------------------------------------------------------------------------
(* _parse_tdl_list on cons-list literals *)

\* Elements of a list literal: the tokens of each.
ListElems == {<<IdA>>, <<IdB>>, <<IdA, Amp, Tag1>>}

\* The tokens after '<' of the literal with these elements and this form,
\* the '>' and the dot of the definition included.
ListLiteral(elems, form) ==
    Join(elems, <<Comma>>)
      \o (CASE form = "closed" -> <<>>
            [] form = "ellipsis" -> (IF elems = <<>> THEN <<>> ELSE <<Comma>>) \o <<Ellipsis>>
            [] form = "dotted" -> <<Dot, IdT>>)
      \o <<ConsClose, Dot>>

ListSpecInit ==
    /\ l_elems \in SeqsUpTo(ListElems, MaxElems)
    /\ l_form \in {"closed", "ellipsis", "dotted"}
    /\ l_form = "dotted" => l_elems # <<>>
    /\ l_toks = ListLiteral(l_elems, l_form)
    /\ l_out = Raise("none")
    /\ l_op = "init"
    /\ ConsIdle
    /\ DiffIdle
    /\ ConjIdle
    /\ ParseIdle
    /\ CorefIdle
    /\ LexIdle

\* _parse_tdl_term's call of line 788, the '<' just taken
CallParseList ==
    /\ l_op = "init"
    /\ l_out' = ParseList(l_toks, 1, 18)
    /\ l_op' = "parsed"
    /\ UNCHANGED <<l_elems, l_form, l_toks, consVars, diffVars, conjVars, parseVars, corefVars, lexVars>>

ListNext == CallParseList

ListSpec == ListSpecInit /\ [][ListNext]_vars

---------------------------------------------------------------------------
(* _parse_tdl on one source *)

\* Tokens a definition body is drawn from freely.
BodyToks == {IdB, Amp, Tag1, AvmOpen, AvmClose, Dot}

\* Terms a longer body is built from.
Chunks == {<<IdB>>, <<StrS>>, <<Tag1>>, <<Tag2>>,
           <<AvmOpen, IdB, Tag1, AvmClose>>,
           <<AvmOpen, IdA, Tag1, Comma, IdB, Tag1, AvmClose>>,
           <<ConsOpen, Tag1, ConsClose>>,
           <<DiffOpen, IdB, DiffClose>>}

Bodies ==
    SeqsUpTo(BodyToks, MaxBody)
      \cup {Join(q, <<Amp>>) \o <<Dot>> : q \in SeqsUpTo(Chunks, MaxChunks)}

\* Sources of one type definition or addendum.
TypeSources == {<<IdA, op>> \o body : op \in {OpDef, OpAdd}, body \in Bodies}

\* Sources of one inflectional rule: a := %prefix|%suffix (m r)... b .
InflSources ==
    {<<IdA, OpDef, mark>> \o subs \o <<IdB, Dot>> :
        mark \in {AffixPrefix, AffixSuffix},
        subs \in SeqsUpTo({SubAB, SubCD}, MaxAffixes)}

\* Sources of one definition with doc-strings and dots after its
\* conjunction.
DocSources ==
    {<<IdA, op>> \o conj \o tail :
        op \in {OpDef, OpAdd},
        conj \in {<<>>, <<IdB>>, <<IdB, Amp, Tag1>>},
        tail \in SeqsUpTo({DocD, Dot, IdB}, MaxTail)}

\* Definitions, well-formed and not, that comments are put into.
CommentBases ==
    {<<IdA, OpDef, IdB, Amp, AvmOpen, IdB, Tag1, AvmClose, Dot>>,
     <<IdA, OpDef, AvmOpen, IdA, Dot, IdB, Tag1, AvmClose, Dot>>,
     <<IdA, OpAdd, DocD, Dot>>,
     <<IdA, OpDef, IdB, DocD, Dot>>,
     <<IdA, OpDef, ConsOpen, Tag1, Comma, IdB, ConsClose, Dot>>,
     <<IdA, OpDef, DiffOpen, IdB, DiffClose, Dot>>,
     <<IdA, OpDef, AffixSuffix, SubAB, IdB, Dot>>,
     <<IdA, OpDef, IdB, IdB, Dot>>,
     <<IdA, OpDef, ConsOpen, IdB, IdB, ConsClose, Dot>>,
     <<IdA, OpDef, IdB, Amp, Dot>>,
     <<IdA, OpDef, IdB>>}

\* The sources of S with one comment more, put after the first token and
\* before the last.
OneMoreComment(S) ==
    UNION {{SubSeq(q, 1, i) \o <<c>> \o SubSeq(q, i + 1, Len(q)) :
                i \in 1..(Len(q) - 1), c \in {BlockComment, LineComment}} :
           q \in S}

\* The sources of S with at most n comments put in.
RECURSIVE WithComments(_, _)
WithComments(S, n) ==
    IF n = 0 THEN S ELSE S \cup WithComments(OneMoreComment(S), n - 1)

CommentSources == WithComments(CommentBases, MaxComments)

\* What stands at the top level of a file: comments, a letter-set,
\* definitions, and a definition without its dot.
Items ==
    {<<BlockComment>>, <<LineComment>>, <<LetterSet>>,
     <<IdA, OpDef, IdB, Dot>>,
     <<IdB, OpAdd, AvmOpen, IdA, Tag1, AvmClose, DocD, Dot>>,
     <<IdT, OpDef, LineComment, Tag1, Dot>>,
     <<IdA, OpDef, IdB>>}

RECURSIVE Concat(_)
Concat(qs) == IF qs = <<>> THEN <<>> ELSE Head(qs) \o Concat(Tail(qs))

\* Sources of several top-level items.
StreamSources == {Concat(q) : q \in SeqsUpTo(Items, MaxItems)}

Sources ==
    TypeSources \cup InflSources \cup DocSources \cup CommentSources
      \cup StreamSources

ParseSpecInit ==
    /\ tokens \in Sources
    /\ pos = 1
    /\ events = <<>>
    /\ spans = <<>>
    /\ pstatus = "running"
    /\ perr = ""
    /\ ConsIdle
    /\ DiffIdle
    /\ ConjIdle
    /\ ListIdle
    /\ CorefIdle
    /\ LexIdle

\* The generator is advanced and _parse_tdl gives r.
Yields(r) ==
    /\ r.res = "ok"
    /\ events' = Append(events, r.v)
    /\ spans' = Append(spans, <<pos, r.p>>)
    /\ pos' = r.p

\* next() on the generator: the loop of _parse_tdl runs to its next yield
ParseYield ==
    /\ pstatus = "running"
    /\ Yields(ParseTdlStep(tokens, pos))
    /\ UNCHANGED <<tokens, pstatus, perr, consVars, diffVars, conjVars, listVars, corefVars, lexVars>>

\* next() on the generator: the loop ends at the end of the tokens
ParseEnd ==
    /\ pstatus = "running"
    /\ ParseTdlStep(tokens, pos).res = "eof"
    /\ pstatus' = "done"
    /\ UNCHANGED <<tokens, pos, events, spans, perr, consVars, diffVars, conjVars, listVars, corefVars, lexVars>>

\* The generator is advanced and the exception r leaves _parse_tdl.
Fails(r) ==
    /\ r.res \notin {"ok", "eof"}
    /\ perr' = r.res

\* next() on the generator: an exception leaves _parse_tdl
ParseFail ==
    /\ pstatus = "running"
    /\ Fails(ParseTdlStep(tokens, pos))
    /\ pstatus' = "error"
    /\ UNCHANGED <<tokens, pos, events, spans, consVars, diffVars, conjVars, listVars, corefVars, lexVars>>

ParseNext == ParseYield \/ ParseEnd \/ ParseFail

ParseSpec == ParseSpecInit /\ [][ParseNext]_vars

---------------------------------------------------------------------------
(* _make_coreferences, tdl.py lines 1198-1218 *)

RECURSIVE DotJoin(_)
\* '.'.join(p) of the segments p
DotJoin(p) ==
    IF p = <<>> THEN ""
    ELSE IF Len(p) = 1 THEN p[1]
    ELSE p[1] \o "." \o DotJoin(Tail(p))

\* Line 1199: each pair with its paths joined into strings.
JoinPaths(corefs) ==
    [i \in 1..Len(corefs) |->
        <<corefs[i][1], [k \in 1..Len(corefs[i][2]) |-> DotJoin(corefs[i][2][k])]>>]

\* merged[cr].extend(paths) on the items of the defaultdict, kept in the
\* order in which their keys were first set.
MergedExtend(merged, cr, paths) ==
    IF \E j \in 1..Len(merged) : merged[j][1] = cr
    THEN [j \in 1..Len(merged) |->
            IF merged[j][1] = cr THEN <<cr, merged[j][2] \o paths>> ELSE merged[j]]
    ELSE Append(merged, <<cr, paths>>)

RECURSIVE MergeLoop(_, _, _)
\* The loop of lines 1205-1209 on the pairs left: [merged, unlabeled].
MergeLoop(corefs, merged, unlabeled) ==
    IF corefs = <<>> THEN [merged |-> merged, unlabeled |-> unlabeled]
    ELSE IF Head(corefs)[1] = NoTag
    THEN MergeLoop(Tail(corefs), merged, Append(unlabeled, Head(corefs)))
    ELSE MergeLoop(Tail(corefs),
                   MergedExtend(merged, Head(corefs)[1], Head(corefs)[2]),
                   unlabeled)

\* Lines 1211-1218.  result is the list of line 1211 and joined the pairs
\* the loop of line 1205 ran over: the names cr and paths in the message
\* of lines 1215-1216 are the loop's, bound to the last pair it ran over
\* (the generator expression of line 1213 binds its own).
CheckSolitary(result, joined) ==
    IF \E j \in 1..Len(result) : Len(result[j][2]) < 2
    THEN [res |-> "TdlError('Solitary coreference')",
          cr |-> joined[Len(joined)][1],
          paths |-> joined[Len(joined)][2]]
    ELSE [res |-> "ok", v |-> result]

\* Line 1211 on what the loop gave.
MergedItems(m, joined) == CheckSolitary(m.merged \o m.unlabeled, joined)

\* Lines 1200-1218 on the pairs of line 1199.
MakeJoined(joined) == MergedItems(MergeLoop(joined, <<>>, <<>>), joined)

\* _make_coreferences(corefs): corefs is a list of pairs (tag, paths), each
\* path the list of its segments; [res, v] or the TdlError raised, with
\* the tag and the paths its message shows.
MakeCoreferences(corefs) == MakeJoined(JoinPaths(corefs))

---------------------------------------------------------------------------
(* _make_coreferences on one list of pairs *)

\* The paths a tag is found at by _parse_conjunction and its callers.
CorefPaths == {<<>>, <<"F">>, <<"F", "G">>}

\* The pairs _parse_conjunction collects: a tag with the one path it was
\* found at (line 1077, prefixed at lines 1138, 1152, 1187), and for a
\* diff-list the tagless pair of its two paths (line 1175).
CorefPairs ==
    {<<tag, <<p>>>> : tag \in {"#1", "#2"}, p \in CorefPaths}
      \cup {<<NoTag, <<pre \o <<DIFF_LIST_LIST>>, pre \o <<DIFF_LIST_LAST>>>>>> :
              pre \in {<<>>, <<"F">>}}

CorefSpecInit ==
    /\ mc_in \in SeqsUpTo(CorefPairs, MaxCorefs)
    /\ mc_out = [res |-> "none"]
    /\ mc_op = "init"
    /\ ConsIdle
    /\ DiffIdle
    /\ ConjIdle
    /\ ListIdle
    /\ ParseIdle
    /\ LexIdle

\* _parse_typedef's call of line 1009
CallMakeCoreferences ==
    /\ mc_op = "init"
    /\ mc_out' = MakeCoreferences(mc_in)
    /\ mc_op' = "made"
    /\ UNCHANGED <<mc_in, consVars, diffVars, conjVars, listVars, parseVars, lexVars>>

CorefNext == CallMakeCoreferences

CorefSpec == CorefSpecInit /\ [][CorefNext]_vars

---------------------------------------------------------------------------
(* _lex and _bounded, tdl.py lines 506-534 and 615-677 *)

\* A line is a sequence of characters.  The characters of the sources are
\* the double quote, #, |, the backslash, a letter, a blank and the newline.
Quote == "\""
Hash == "#"
Bar == "|"
Backslash == "\\"
Letter == "a"
Blank == " "
Newline == "\n"

\* The delimiters of the two multiline constructs.
DocDelim == <<Quote, Quote, Quote>>
CommentOpen == <<Hash, Bar>>
CommentClose == <<Bar, Hash>>

\* line.startswith(p, at): at counts from 0 as in the source.
StartsWith(line, p, at) ==
    /\ at + Len(p) <= Len(line)
    /\ SubSeq(line, at + 1, at + Len(p)) = p

\* line[a:b], a and b counting from 0.
Slice(line, a, b) == SubSeq(line, a + 1, IF b > Len(line) THEN Len(line) ELSE b)

\* The characters of [^\s!"#$&'(),./:;<=>[\]^] among those of the sources.
IsIdentChar(c) == c \in {Letter, Bar, Backslash}

\* The index from 0 after the longest run of identifier characters that
\* begins at index at.
RECURSIVE RunEnd(_, _)
RunEnd(line, at) ==
    IF at >= Len(line) THEN at
    ELSE IF IsIdentChar(line[at + 1]) THEN RunEnd(line, at + 1)
    ELSE at

\* Group 4, "([^"\\]*(?:\\.[^"\\]*)*)", tried with the opening quote before
\* index at: the index after the closing quote, or -1 when the pattern does
\* not match.  A backslash must be followed by a character that is no
\* newline.
RECURSIVE StringEnd(_, _)
StringEnd(line, at) ==
    IF at >= Len(line) THEN -1
    ELSE IF line[at + 1] = Quote THEN at + 1
    ELSE IF line[at + 1] # Backslash THEN StringEnd(line, at + 1)
    ELSE IF at + 1 >= Len(line) \/ line[at + 2] = Newline THEN -1
    ELSE StringEnd(line, at + 2)

\* A match of _tdl_lex_re: its group, the text of the group and the index
\* after the match.
Match(gid, text, end) == [gid |-> gid, text |-> text, end |-> end]

\* The match of group 4 or, when there is none, of group 25.
MatchString(line, at, e) ==
    IF e = -1 THEN Match(25, <<Quote>>, at + 1)
    ELSE Match(4, Slice(line, at + 1, e - 1), e)

\* The match of _tdl_lex_re that begins at index at of line, group 0 when
\* none begins there (white space).
MatchAt(line, at) ==
    CASE StartsWith(line, DocDelim, at) -> Match(1, DocDelim, at + 3)
      [] StartsWith(line, CommentOpen, at) -> Match(2, CommentOpen, at + 2)
      [] line[at + 1] = Quote /\ ~StartsWith(line, DocDelim, at) ->
            MatchString(line, at, StringEnd(line, at + 1))
      [] line[at + 1] = Hash /\ ~StartsWith(line, CommentOpen, at) ->
            IF RunEnd(line, at + 1) > at + 1
            THEN Match(19, Slice(line, at, RunEnd(line, at + 1)), RunEnd(line, at + 1))
            ELSE Match(25, <<Hash>>, at + 1)
      [] IsIdentChar(line[at + 1]) ->
            Match(24, Slice(line, at, RunEnd(line, at)), RunEnd(line, at))
      [] OTHER -> Match(0, <<>>, at + 1)

\* What _bounded gives: res is "ok" with the text s, the line number
\* line_no reached and the index end to resume at, or the exception, with
\* the line number it carries.
BoundedRet(s, start_line_no, line_no, end) ==
    [res |-> "ok", s |-> s, start_line_no |-> start_line_no,
     line_no |-> line_no, end |-> end, line_number |-> 0]
BoundedRaise(exc, line_number) ==
    [res |-> exc, s |-> <<>>, start_line_no |-> 0, line_no |-> 0, end |-> 0,
     line_number |-> line_number]

\* The name of the construct in the message of line 674.
Unterminated(p1) ==
    IF p1 = DocDelim
    THEN "TdlParsingError('Unterminated docstring', line_number)"
    ELSE "TdlParsingError('Unterminated block comment', line_number)"

\* The loop of _bounded (lines 661-675) on the line line_no of lines:
\* from (pos in the source) and end count from 0, substrings is the text collected so far.
RECURSIVE Bounded(_, _, _, _, _, _, _, _)
Bounded(lines, p1, p2, start_line_no, line_no, from, end, substrings) ==
    IF StartsWith(lines[line_no], p2, end)
    THEN BoundedRet(substrings \o Slice(lines[line_no], from, end),
                    start_line_no, line_no, end + Len(p2))
    ELSE IF end >= Len(lines[line_no])
    THEN BoundedRaise("IndexError", 0)
    ELSE IF end + (IF lines[line_no][end + 1] = Backslash THEN 2 ELSE 1)
              < Len(lines[line_no])
    THEN Bounded(lines, p1, p2, start_line_no, line_no, from,
                 end + (IF lines[line_no][end + 1] = Backslash THEN 2 ELSE 1),
                 substrings)
    ELSE IF line_no + 1 > Len(lines)
    THEN BoundedRaise(Unterminated(p1), start_line_no)
    ELSE Bounded(lines, p1, p2, start_line_no, line_no + 1, 0, 0,
                 substrings \o Slice(lines[line_no], from, Len(lines[line_no])))

\* The state of the generator _lex between two tokens: the line it is on
\* (0 before the first), the index from 0 at which the scan of that line
\* goes on, and what its last step gave: res is "ok" with the token
\* (gid, s, line_no) in tok, "StopIteration" at the end of the lines, or
\* the exception raised, with the line number it carries.
LexState(res, tok, line_no, at, line_number) ==
    [res |-> res, tok |-> tok, line_no |-> line_no, at |-> at,
     line_number |-> line_number]

LexTok(gid, s, line_no) == [gid |-> gid, s |-> s, line_no |-> line_no]

\* LexBounded with the scan going on one character after the index that
\* _bounded gave.
LexBounded_SkipOne(gid, b) ==
    IF b.res # "ok" THEN LexState(b.res, PyNone, 0, 0, b.line_number)
    ELSE LexState("ok", LexTok(gid, b.s, b.line_no), b.line_no, b.end + 1, 0)

\* Lines 630-636: the token of a multiline construct, b being what _bounded
\* gave.
LexBounded(gid, b) ==
    IF b.res # "ok" THEN LexState(b.res, PyNone, 0, 0, b.line_number)
    ELSE LexState("ok", LexTok(gid, b.s, b.line_no), b.line_no, b.end, 0)

\* Lines 628-648 for the match m found on line line_no.
LexMatch(lines, line_no, m) ==
    CASE m.gid = 1 ->
            LexBounded(1, Bounded(lines, DocDelim, DocDelim, line_no, line_no,
                                  m.end, m.end, <<>>))
      [] m.gid = 2 ->
            LexBounded(2, Bounded(lines, CommentOpen, CommentClose, line_no,
                                  line_no, m.end, m.end, <<>>))
      [] m.gid = 25 ->
            LexState("TdlParsingError('Syntax error', line_number)", PyNone,
                     0, 0, line_no)
      [] OTHER -> LexState("ok", LexTok(m.gid, m.text, line_no), line_no, m.end, 0)

\* The generator run from line line_no, index at, to its next token, its
\* end or its exception (lines 623-650): the matches of a line are taken
\* from left to right, the next line is read when a line has no more.
RECURSIVE LexStep(_, _, _)
LexStep(lines, line_no, at) ==
    IF line_no = 0 \/ at >= Len(lines[line_no])
    THEN IF line_no + 1 > Len(lines)
         THEN LexState("StopIteration", PyNone, line_no, at, 0)
         ELSE LexStep(lines, line_no + 1, 0)
    ELSE IF MatchAt(lines[line_no], at).gid = 0
    THEN LexStep(lines, line_no, at + 1)
    ELSE LexMatch(lines, line_no, MatchAt(lines[line_no], at))

---------------------------------------------------------------------------
(* _lex on one source *)

\* What a source is made of: characters, delimiters and ends of lines.
Pieces ==
    {<<Letter>>, <<Blank>>, <<Backslash>>, DocDelim, CommentOpen, CommentClose,
     <<Newline>>}

\* The index of the first newline of chars at or after index i, Len(chars)
\* when there is none.
RECURSIVE LineEnd(_, _)
LineEnd(chars, i) ==
    IF i >= Len(chars) \/ chars[i] = Newline THEN i ELSE LineEnd(chars, i + 1)

\* The lines a stream gives for the characters chars: each line ends with
\* its newline, the last line may lack one.
RECURSIVE SplitLines(_)
SplitLines(chars) ==
    IF chars = <<>> THEN <<>>
    ELSE <<SubSeq(chars, 1, LineEnd(chars, 1))>>
           \o SplitLines(SubSeq(chars, LineEnd(chars, 1) + 1, Len(chars)))

\* The sources: the lines of at most MaxPieces pieces, at most MaxLines
\* lines.
LexSources ==
    {lines \in {SplitLines(Concat(q)) : q \in SeqsUpTo(Pieces, MaxPieces)} :
        Len(lines) <= MaxLines}

LexSpecInit ==
    /\ lx_src \in LexSources
    /\ lx_out = LexState("init", PyNone, 0, 0, 0)
    /\ lx_toks = <<>>
    /\ lx_op = "init"
    /\ ConsIdle
    /\ DiffIdle
    /\ ConjIdle
    /\ ListIdle
    /\ ParseIdle
    /\ CorefIdle

\* The generator is advanced and gives r, a token.
LexYields(r) ==
    /\ r.res = "ok"
    /\ lx_out' = r
    /\ lx_toks' = Append(lx_toks, r.tok)
    /\ lx_op' = "yield"

\* next() on the generator _lex: it runs to its next yield
LexYield ==
    /\ lx_op \in {"init", "yield"}
    /\ LexYields(LexStep(lx_src, lx_out.line_no, lx_out.at))
    /\ UNCHANGED <<lx_src, consVars, diffVars, conjVars, listVars, parseVars, corefVars>>

\* The generator is advanced and ends: the lines are exhausted (line 625)
\* and the StopIteration is passed over at lines 649-650.
LexEnds(r) ==
    /\ r.res = "StopIteration"
    /\ lx_out' = r
    /\ lx_op' = "end"

LexEnd ==
    /\ lx_op \in {"init", "yield"}
    /\ LexEnds(LexStep(lx_src, lx_out.line_no, lx_out.at))
    /\ UNCHANGED <<lx_src, lx_toks, consVars, diffVars, conjVars, listVars, parseVars, corefVars>>

\* The generator is advanced and the exception r leaves it.
LexFails(r) ==
    /\ r.res \notin {"ok", "StopIteration"}
    /\ lx_out' = r
    /\ lx_op' = "fail"

LexFail ==
    /\ lx_op \in {"init", "yield"}
    /\ LexFails(LexStep(lx_src, lx_out.line_no, lx_out.at))
    /\ UNCHANGED <<lx_src, lx_toks, consVars, diffVars, conjVars, listVars, parseVars, corefVars>>

LexNext == LexYield \/ LexEnd \/ LexFail

LexSpec == LexSpecInit /\ [][LexNext]_vars

---------------------------------------------------------------------------
(* Claims about ConsList *)

\* The path of n REST segments followed by the segments of tail.
RECURSIVE Rests(_, _)
Rests(n, tail) == IF n = 0 THEN tail ELSE <<LIST_TAIL>> \o Rests(n - 1, tail)

StoredAt(c, path, v) == ~c.null /\ GetItem(c.avm, path) = [res |-> "ok", v |-> v]

\* C1: a ConsList built from n >= 1 values v1..vn and an end e stores vi at
\* the path of i-1 REST segments followed by FIRST, and e at the path of
\* exactly n REST segments.
C1_EndAtLastRest ==
    (cl_op = "init" /\ Len(cl_values) >= 1) =>
        /\ \A i \in 1..Len(cl_values) :
              StoredAt(cl, Rests(i - 1, <<LIST_HEAD>>), cl_values[i])
        /\ StoredAt(cl, Rests(Len(cl_values), <<>>), cl_end)

\* C2: after ConsList(values, end), terminated is true exactly when end is
\* not *list*; no values and end *null* give the null structure; no values
\* and end *list* leave the feature map empty and open.
C2_TerminatedIffNotList ==
    cl_op = "init" =>
        /\ cl.terminated <=> (cl_end # PyStr(LIST_TYPE))
        /\ (cl_values = <<>> /\ cl_end = PyStr(EMPTY_LIST_TYPE)) => cl.null
        /\ (cl_values = <<>> /\ cl_end = PyStr(LIST_TYPE)) =>
              (~cl.null /\ cl.avm = <<>>)

C2_Witness ==
    /\ cl_op = "init"
    /\ Len(cl_values) >= 1
    /\ cl_end = Coreference(NoTag, PyNone)
    /\ cl.terminated

\* C3: append on a ConsList that is terminated, or whose feature map is
\* the null structure, fails with 'Cannot append to a closed list.' and
\* leaves the feature map, the last path and the terminated flag as they
\* were.
C3_AppendClosedFails ==
    (cl_op = "append" /\ (cl_prev.terminated \/ cl_prev.null)) =>
        /\ cl_res = "TdlError('Cannot append to a closed list.')"
        /\ cl = cl_prev

C3_Witness ==
    /\ cl_op = "append"
    /\ cl_prev.terminated
    /\ ~cl_prev.null
    /\ cl_res # "ok"

---------------------------------------------------------------------------
(* Claims about DiffList *)

\* C5: a DiffList has exactly the two top-level features LIST and LAST;
\* LAST holds a conjunction whose only term is a coreference, and that
\* coreference is the tail of LIST's FIRST/REST chain (the REST after the
\* last FIRST) when there are elements, or the only term of LIST's value
\* when there are none.
C5_DiffListShape ==
    dl_op = "init" =>
        LET cr == Coreference(NoTag, PyNone)
            n == Len(dl_values)
            tail == GetItem(dl.avm, <<DIFF_LIST_LIST>> \o Rests(n, <<>>))
        IN /\ {dl.avm[i].k : i \in 1..Len(dl.avm)} = {DIFF_LIST_LIST, DIFF_LIST_LAST}
           /\ Len(dl.avm) = 2
           /\ Lookup(dl.avm, DIFF_LIST_LAST) = ConjOf(<<cr>>)
           /\ tail.res = "ok"
           /\ tail.v \in {cr, ConjOf(<<cr>>)}
           /\ (n = 0) => (tail.v = ConjOf(<<cr>>))

\* C6: values() of every DiffList, the empty one included, returns the
\* elements the DiffList was built from, in order, and never fails.
C6_ValuesReturnsElements ==
    dl_op = "values" => dl_out = [res |-> "ok", vals |-> dl_values]

---------------------------------------------------------------------------
(* Claims about Conjunction *)

\* The terms of a list of constructor arguments, each Conjunction among
\* them replaced by its terms.
RECURSIVE Flat(_)
Flat(items) ==
    IF items = <<>> THEN <<>>
    ELSE (IF Head(items).kind = "Conjunction"
          THEN Head(items).terms ELSE <<Head(items)>>) \o Flat(Tail(items))

\* C7: a Conjunction's term list never contains a Conjunction; adding a
\* Conjunction appends its terms in their order after the terms already
\* present; adding what is neither a Term nor a Conjunction raises an error
\* and leaves the term list unchanged.
C7_ConjunctionFlat ==
    /\ \A i \in 1..Len(cj.terms) : IsTerm(cj.terms[i])
    /\ cj_op = "init" => cj.terms = Flat(cj_arg.items)
    /\ (cj_op = "add" /\ cj_arg.kind = "Conjunction") =>
          (cj_res.res = "ok" /\ cj.terms = cj_prev.terms \o cj_arg.terms)
    /\ (cj_op = "add" /\ IsTerm(cj_arg)) =>
          (cj_res.res = "ok" /\ cj.terms = Append(cj_prev.terms, cj_arg))
    /\ (cj_op = "add" /\ cj_arg \in NonTerms) =>
          (cj_res.res = "TypeError('Not a Term or Conjunction')" /\ cj = cj_prev)

C7_Witness ==
    /\ cj_op = "add"
    /\ cj_arg.kind = "Conjunction"
    /\ Len(cj_arg.terms) = 2
    /\ Len(cj_prev.terms) >= 1
    /\ Len(cj.terms) = Len(cj_prev.terms) + 2

\* The index of the first String among terms, 0 when there is none.
FirstString(terms) ==
    IF \E i \in 1..Len(terms) : terms[i].kind = "String"
    THEN CHOOSE i \in 1..Len(terms) :
            /\ terms[i].kind = "String"
            /\ \A j \in 1..(i - 1) : terms[j].kind # "String"
    ELSE 0

\* C8: string() returns the first String term of the conjunction in term
\* order, or None when there is none, for every conjunction.
C8_StringReturnsFirstString ==
    cj_op = "string" =>
        /\ cj_res.res = "ok"
        /\ cj_res.v = IF FirstString(cj.terms) = 0
                      THEN PyNone
                      ELSE cj.terms[FirstString(cj.terms)]

---------------------------------------------------------------------------
(* Claims about the parser *)

\* The term a token of a list element stands for.
ExpectedTerm(t) ==
    IF t.gid = 19 THEN Coreference(t.tok, PyNone) ELSE TypeIdentifier(t.tok, PyNone)

\* The conjunction an element of a list literal stands for: the terms at
\* its odd places, '&' being at the even ones.
ExpectedValue(elem) ==
    ConjOf([i \in 1..((Len(elem) + 1) \div 2) |-> ExpectedTerm(elem[2 * i - 1])])

\* The end the table of ConsList gives for a literal of this form.
ExpectedEnd(form) ==
    CASE form = "closed" -> PyStr(EMPTY_LIST_TYPE)
      [] form = "ellipsis" -> PyStr(LIST_TYPE)
      [] form = "dotted" -> ConjOf(<<TypeIdentifier("t", PyNone)>>)

\* C4: the parser maps a cons-list literal to the (values, end) pair of
\* the table of ConsList: the elements as values, and as end *null* for a
\* literal closed without ellipsis or dotted tail (empty or not), *list*
\* for one that ends in an ellipsis, and t for the dotted tail t.
C4_ListLiteralTable ==
    l_op = "parsed" =>
        /\ l_out.res = "ok"
        /\ l_out.v = [values |-> [i \in 1..Len(l_elems) |-> ExpectedValue(l_elems[i])],
                      end |-> ExpectedEnd(l_form)]

\* The supertype terms of a conjunction are its type identifiers, strings
\* and regular expressions (Conjunction.types).
HasSupertypes(conjunction) == Types(conjunction.terms) # <<>>

\* C9: a definition written with := whose conjunction has no supertype
\* term yields no Type and fails with the supertypes error, and a
\* definition written with :+ never fails with that error.  The first
\* event of a source that starts with a definition is that definition.
C9_DefinitionRequiresSupertypes ==
    /\ (/\ Len(tokens) >= 2
        /\ tokens[2] = OpDef
        /\ Len(events) >= 1
        /\ events[1].kind = "Type")
          => HasSupertypes(events[1].conjunction)
    /\ (Len(tokens) >= 2 /\ tokens[2] = OpAdd /\ events = <<>>)
          => perr # "TdlParsingError('Type definition requires supertypes.')"

RECURSIVE TagPaths(_, _, _)
\* The feature paths at which the coreference tag occurs in the value v.
TagPaths(v, path, tag) ==
    CASE v.kind = "Coreference" -> IF v.identifier = tag THEN {path} ELSE {}
      [] v.kind = "Conjunction" ->
            UNION {TagPaths(v.terms[i], path, tag) : i \in 1..Len(v.terms)}
      [] v.kind = "AVM" ->
            IF v.null THEN {}
            ELSE UNION {TagPaths(v.avm[i].v, Append(path, v.avm[i].k), tag) :
                          i \in 1..Len(v.avm)}
      [] OTHER -> {}

\* The tags the sources are written with.
Tags == {Tag1.tok, Tag2.tok}

\* C10: in every Type that parsing yields each coreference entry, a pair of
\* a tag and its paths, has at least two distinct paths, and no tag occurs
\* at only one path of the definition: such a definition yields no Type.
C10_NoSolitaryCoreference ==
    \A i \in 1..Len(events) :
        events[i].kind = "Type" =>
            /\ \A j \in 1..Len(events[i].coreferences) :
                  Cardinality({events[i].coreferences[j][2][k] :
                                 k \in 1..Len(events[i].coreferences[j][2])}) >= 2
            /\ \A tag \in Tags :
                  Cardinality(TagPaths(events[i].conjunction, <<>>, tag)) # 1

RECURSIVE DiffCount(_)
RECURSIVE DiffCountAll(_)
\* The number of diff-lists in the value v.
DiffCount(v) ==
    CASE v.kind = "Conjunction" -> DiffCountAll(v.terms)
      [] v.kind = "AVM" ->
            (IF v.cls = "DiffList" THEN 1 ELSE 0)
              + (IF v.null THEN 0
                 ELSE DiffCountAll([i \in 1..Len(v.avm) |-> v.avm[i].v]))
      [] OTHER -> 0

\* The number of diff-lists in the values vs.
DiffCountAll(vs) ==
    IF vs = <<>> THEN 0 ELSE DiffCount(Head(vs)) + DiffCountAll(Tail(vs))

\* The places of the coreference entries of the Type t that carry tag.
EntriesOf(t, tag) ==
    {j \in 1..Len(t.coreferences) : t.coreferences[j][1] = tag}

\* C11: the Type produced for a definition carries, for every tag that
\* occurs in it, exactly one coreference entry, whose paths are all the
\* feature paths at which the tag occurs (the empty path for the top
\* level), and one tagless entry for each diff-list of the definition.
C11_OneEntryPerTag ==
    \A i \in 1..Len(events) :
        events[i].kind = "Type" =>
            /\ \A tag \in Tags :
                  TagPaths(events[i].conjunction, <<>>, tag) # {} =>
                      /\ Cardinality(EntriesOf(events[i], tag)) = 1
                      /\ \A j \in EntriesOf(events[i], tag) :
                            {events[i].coreferences[j][2][k] :
                               k \in 1..Len(events[i].coreferences[j][2])}
                              = TagPaths(events[i].conjunction, <<>>, tag)
            /\ Cardinality(EntriesOf(events[i], NoTag))
                  = DiffCount(events[i].conjunction)

---------------------------------------------------------------------------
(* Claims about _make_coreferences *)

RECURSIVE PairsOf(_, _)
\* The paths, in order, of the pairs of corefs that carry tag.
PairsOf(corefs, tag) ==
    IF corefs = <<>> THEN <<>>
    ELSE (IF Head(corefs)[1] = tag THEN Head(corefs)[2] ELSE <<>>)
           \o PairsOf(Tail(corefs), tag)

\* C12: when the pairs are rejected for a solitary coreference, the error
\* names a tag that has fewer than two paths among them, and that tag's
\* lone path, whatever other tags the pairs hold.
C12_ErrorNamesSolitaryTag ==
    (mc_op = "made" /\ mc_out.res = "TdlError('Solitary coreference')") =>
        /\ mc_out.cr # NoTag
        /\ Len(PairsOf(mc_in, mc_out.cr)) = 1
        /\ mc_out.paths = <<DotJoin(PairsOf(mc_in, mc_out.cr)[1])>>

---------------------------------------------------------------------------
(* Claims about the definition stream *)

\* The subpattern tokens that follow the affix marker of an inflectional
\* source.
SubsOf(toks) == SelectSeq(toks, LAMBDA t : t.gid = 22)

\* C13: a definition identifier := %prefix|%suffix (m1 r1) ... (mk rk)
\* conjunction . yields one InflRule with that identifier, the affix type
\* as written, the k (match, replacement) pairs in source order and the
\* remainder as its conjunction.
C13_InflRuleYielded ==
    (tokens \in InflSources /\ pstatus # "running") =>
        /\ pstatus = "done"
        /\ Len(events) = 1
        /\ events[1].kind = "InflRule"
        /\ events[1].identifier = tokens[1].tok
        /\ events[1].affix_type = tokens[3].tok
        /\ events[1].affix = [i \in 1..Len(SubsOf(tokens)) |->
                                 AffixSplit(SubsOf(tokens)[i].tok)]
        /\ events[1].conjunction = ConjOf(<<TypeIdentifier("b", PyNone)>>)

\* The tokens of toks from place a up to place b that are no comments.
Significant(toks, a, b) ==
    SelectSeq(SubSeq(toks, a, b), LAMBDA t : ~IsComment(t))

\* What follows the operator of the definition whose significant tokens
\* are d ends the definition: a doc-string and a dot with no conjunction,
\* or a conjunction and then a dot or one doc-string and a dot, the dot
\* being the token at place last.
EndsWithDot(d, last) ==
    /\ last <= Len(d)
    /\ d[last].gid = 10
    /\ \/ last = 4 /\ d[3].gid = 1
       \/ /\ ParseConjunction(d, 3).res = "ok"
          /\ \/ ParseConjunction(d, 3).p = last
             \/ /\ ParseConjunction(d, 3).p = last - 1
                /\ d[last - 1].gid = 1

\* The definition whose significant tokens are d has its conjunction
\* and then a token that is no dot, or one doc-string and then a token
\* that is no dot.
OtherTokenAtDot(d) ==
    /\ Len(d) >= 3
    /\ d[1].gid = 24
    /\ d[2].gid \in {7, 8}
    /\ d[3].gid # 21
    /\ ~(d[3].gid = 1 /\ Len(d) >= 4 /\ d[4].gid = 10)
    /\ ParseConjunction(d, 3).res = "ok"
    /\ \/ ParseConjunction(d, 3).nextgid \notin {1, 10}
       \/ /\ ParseConjunction(d, 3).nextgid = 1
          /\ ParseConjunction(d, 3).p + 1 <= Len(d)
          /\ d[ParseConjunction(d, 3).p + 1].gid # 10

---------------------------------------------------------------------------
\* toks with the comments after position p taken out.
StripFrom(toks, p) ==
    LET n == IF p > Len(toks) THEN Len(toks) ELSE p
    IN SubSeq(toks, 1, n)
         \o SelectSeq(SubSeq(toks, n + 1, Len(toks)), LAMBDA t : ~IsComment(t))

\* C15: comments between the tokens of a definition are invisible.  Each
\* definition yielded is the one its tokens give once the comments after
\* its identifier are taken out, a source that is refused is refused with
\* the same error as without these comments, and no comment that stands
\* inside a yielded definition is an event.
C15_CommentsInvisible ==
    /\ \A i \in 1..Len(events) :
          events[i].kind \in {"Type", "InflRule"} =>
              LET r == ParseTdlStep(StripFrom(tokens, spans[i][1]), spans[i][1])
              IN r.res = "ok" /\ r.v = events[i]
    /\ pstatus = "error" =>
          ParseTdlStep(StripFrom(tokens, pos), pos).res = perr
    /\ pstatus = "done" =>
          ParseTdlStep(StripFrom(tokens, pos), pos).res = "eof"
    /\ \A i, j \in 1..Len(events) :
          events[i].kind \in {"BLOCKCOMMENT", "LINECOMMENT"} =>
              ~(spans[j][1] < spans[i][1] /\ spans[i][1] < spans[j][2] - 1)

\* A type was yielded from a definition that holds a block comment and a
\* line comment between its identifier and its dot.
C15_Witness ==
    \E i \in 1..Len(events) :
        /\ events[i].kind = "Type"
        /\ \E k, l \in (spans[i][1] + 1)..(spans[i][2] - 2) :
              tokens[k].gid = 2 /\ tokens[l].gid = 3

---------------------------------------------------------------------------
\* The event the token t stands for when it is read at the top level.
StartsEvent(t, e) ==
    CASE t.gid = 2 -> e.kind = "BLOCKCOMMENT" /\ e.tok = t.tok
      [] t.gid = 3 -> e.kind = "LINECOMMENT" /\ e.tok = t.tok
      [] t.gid = 20 -> e.kind = "LETTERSET" /\ e.tok = t.tok
      [] t.gid = 24 -> e.kind \in {"Type", "InflRule"} /\ e.identifier = t.tok
      [] OTHER -> FALSE

\* C16: the events come in the order of their first tokens in the source.
\* The first event starts at the first token, each later one where the one
\* before it ended, each is the event of the token it starts at, so that
\* none comes twice and nothing before the position of an error or of the
\* end is passed over; a run that ends normally has read every token.
C16_EventsInSourceOrder ==
    /\ \A i \in 1..Len(events) :
          /\ spans[i][1] = (IF i = 1 THEN 1 ELSE spans[i - 1][2])
          /\ spans[i][1] < spans[i][2]
          /\ StartsEvent(tokens[spans[i][1]], events[i])
    /\ pos = (IF events = <<>> THEN 1 ELSE spans[Len(events)][2])
    /\ Len(spans) = Len(events)
    /\ pstatus = "done" => pos = Len(tokens) + 1

\* A type and after it a letter-set or a line comment were yielded, and
\* the item after them was refused.
C16_Witness ==
    /\ Len(events) = 2
    /\ events[1].kind = "Type"
    /\ events[2].kind \in {"LETTERSET", "LINECOMMENT"}
    /\ pstatus = "error"

---------------------------------------------------------------------------
\* Tokens that finish a definition that was cut short.
Closers ==
    {<<Dot>>, <<IdB, Dot>>, <<Tag1, Dot>>, <<OpDef, IdB, Dot>>,
     <<AvmClose, Dot>>, <<ConsClose, Dot>>, <<DiffClose, Dot>>,
     <<IdB, AvmClose, Dot>>, <<Tag1, AvmClose, Dot>>, <<DocD, Dot>>}

\* The tokens from p on are the beginning of a definition whose closing dot
\* lies beyond the end of toks: more input would complete it.
EndsInsideDefinition(toks, p) ==
    /\ p <= Len(toks)
    /\ toks[p].gid = 24
    /\ \E ext \in Closers :
          LET r == ParseTdlStep(toks \o ext, p)
          IN r.res = "ok" /\ r.p > Len(toks) + 1

\* C17: a stream whose input ends after a completed item, or is empty, ends
\* normally; a stream whose input ends inside a definition, after its
\* identifier and before its closing dot, raises the parsing error
\* 'Unexpected end of input.' and yields nothing for that definition.
C17_EndOfInput ==
    /\ (pstatus # "running" /\ pos = Len(tokens) + 1) =>
          pstatus = "done" /\ perr = ""
    /\ (pstatus # "running" /\ EndsInsideDefinition(tokens, pos)) =>
          /\ pstatus = "error"
          /\ perr = "TdlParsingError('Unexpected end of input.')"
          /\ \A i \in 1..Len(events) : spans[i][2] <= pos

\* After a definition was yielded the input ended inside the next one.
C17_Witness ==
    /\ pstatus = "error"
    /\ Len(events) >= 1
    /\ events[Len(events)].kind = "Type"
    /\ EndsInsideDefinition(tokens, pos)

---------------------------------------------------------------------------
\* The parsing errors that are raised with a line number.
ErrorsWithLine ==
    {"TdlParsingError('Expected: := or :+', line_number)",
     "TdlParsingError('Expected: .', line_number)",
     "TdlParsingError('Syntax error; unexpected token', line_number)",
     "TdlParsingError('Expected a TDL conjunction term.', line_number)",
     "TdlParsingError('Expected a feature name', line_number)",
     "TdlParsingError('Expected: , or ]', line_number)",
     "TdlParsingError('Expected: end of list', line_number)"}

\* C18: whatever stops the stream reaches the caller as a TdlParsingError
\* that carries a line number: no parsing error is without one and no
\* exception of another type leaves the parser.
C18_ErrorsCarryLineNumber ==
    pstatus = "error" => perr \in ErrorsWithLine

---------------------------------------------------------------------------
\* Where the scan that goes on at index at of line line_no finds its next
\* match, as <<line number, index>>, <<0, 0>> when the lines end first.
RECURSIVE NextMatch(_, _, _)
NextMatch(lines, line_no, at) ==
    IF line_no = 0 \/ at >= Len(lines[line_no])
    THEN IF line_no + 1 > Len(lines) THEN <<0, 0>>
         ELSE NextMatch(lines, line_no + 1, 0)
    ELSE IF MatchAt(lines[line_no], at).gid = 0
    THEN NextMatch(lines, line_no, at + 1)
    ELSE <<line_no, at>>

\* The delimiter p2 stands nowhere from index at of line line_no to the
\* end of the lines.
NoCloser(lines, p2, line_no, at) ==
    /\ \A j \in at..Len(lines[line_no]) : ~StartsWith(lines[line_no], p2, j)
    /\ \A k \in (line_no + 1)..Len(lines) :
          \A j \in 0..Len(lines[k]) : ~StartsWith(lines[k], p2, j)

\* The construct opened at index m[2] of line m[1] of lines is never
\* closed.
OpensUnterminated(lines, m) ==
    /\ m[1] # 0
    /\ \/ /\ MatchAt(lines[m[1]], m[2]).gid = 1
          /\ NoCloser(lines, DocDelim, m[1], m[2] + 3)
       \/ /\ MatchAt(lines[m[1]], m[2]).gid = 2
          /\ NoCloser(lines, CommentClose, m[1], m[2] + 2)

\* C19: when the next thing _lex meets is the opening of a doc-string or
\* of a block comment whose closing delimiter stands nowhere in the rest
\* of the input, the step fails with the parsing error 'Unterminated
\* docstring' or 'Unterminated block comment', and the line number of the
\* error is the line of the opening delimiter.
C19_UnterminatedNamesStartLine ==
    [][(lx_op \in {"init", "yield"}
          /\ OpensUnterminated(lx_src, NextMatch(lx_src, lx_out.line_no, lx_out.at)))
        => /\ lx_op' = "fail"
           /\ lx_out'.res =
                 (IF MatchAt(lx_src[NextMatch(lx_src, lx_out.line_no, lx_out.at)[1]],
                             NextMatch(lx_src, lx_out.line_no, lx_out.at)[2]).gid = 1
                  THEN "TdlParsingError('Unterminated docstring', line_number)"
                  ELSE "TdlParsingError('Unterminated block comment', line_number)")
           /\ lx_out'.line_number = NextMatch(lx_src, lx_out.line_no, lx_out.at)[1]]_vars

---------------------------------------------------------------------------
\* C20: a closed ConsList stays closed.  A call of append or terminate on
\* a list whose terminated is true leaves terminated true and the stored
\* chain as it was, and such an append fails.
C20_ClosedStaysClosed ==
    (cl_op \in {"append", "terminate"} /\ cl_prev.terminated) =>
        /\ cl.terminated
        /\ cl.avm = cl_prev.avm
        /\ cl.null = cl_prev.null
        /\ cl_op = "append" => cl_res # "ok"

---------------------------------------------------------------------------
\* The characters of lines from index at of line line_no to the end, the
\* lines put one after the other.
RestFrom(lines, line_no, at) ==
    Concat(<<Slice(lines[line_no], at, Len(lines[line_no]))>>
             \o SubSeq(lines, line_no + 1, Len(lines)))

\* The index in the characters chars of the first delimiter p2 at or after
\* index j that no backslash escapes, -1 when there is none.
RECURSIVE CloserAt(_, _, _)
CloserAt(chars, p2, j) ==
    IF j >= Len(chars) THEN -1
    ELSE IF StartsWith(chars, p2, j) THEN j
    ELSE IF chars[j + 1] = Backslash THEN CloserAt(chars, p2, j + 2)
    ELSE CloserAt(chars, p2, j + 1)

\* The line and the index in it that lie n characters after index at of
\* line line_no.
RECURSIVE PlaceAfter(_, _, _, _)
PlaceAfter(lines, line_no, at, n) ==
    IF at + n <= Len(lines[line_no]) \/ line_no = Len(lines)
    THEN <<line_no, at + n>>
    ELSE PlaceAfter(lines, line_no + 1, 0, n - (Len(lines[line_no]) - at))

\* What the token of the multiline construct opened by p1 at index at of
\* line line_no must be: its text s, the characters up to the closing
\* delimiter p2 found at index c of the characters that follow p1, and the
\* place after that delimiter.
ExpectedBounded(lines, p1, p2, line_no, at, c) ==
    [closed |-> c # -1,
     s |-> SubSeq(RestFrom(lines, line_no, at + Len(p1)), 1, c),
     place |-> PlaceAfter(lines, line_no, at + Len(p1), c + Len(p2))]

\* What the token that begins at the place m = <<line, index>> of lines
\* must be, and the place after it.
ExpectedToken(lines, m) ==
    CASE MatchAt(lines[m[1]], m[2]).gid = 1 ->
            ExpectedBounded(lines, DocDelim, DocDelim, m[1], m[2],
                CloserAt(RestFrom(lines, m[1], m[2] + 3), DocDelim, 0))
      [] MatchAt(lines[m[1]], m[2]).gid = 2 ->
            ExpectedBounded(lines, CommentOpen, CommentClose, m[1], m[2],
                CloserAt(RestFrom(lines, m[1], m[2] + 2), CommentClose, 0))
      [] OTHER ->
            [closed |-> TRUE,
             s |-> MatchAt(lines[m[1]], m[2]).text,
             place |-> <<m[1], MatchAt(lines[m[1]], m[2]).end>>]

\* C21: the scanner goes through the source once, from left to right.  A
\* step that emits a token emits the one that begins at the first match
\* after the place the scan stood at, and leaves the scan directly after
\* that token; for a doc-string or a block comment the text is exactly the
\* characters between the opening and the closing delimiter over all the
\* lines spanned, and the scan goes on in the line of the closing
\* delimiter at the character after it.  The scanner ends only when nothing
\* but white space is left.  So every token after a closing delimiter is
\* emitted once and no line is read twice or skipped.
C21_ResumesAfterClosingDelimiter ==
    [][/\ lx_op' = "yield" =>
            /\ NextMatch(lx_src, lx_out.line_no, lx_out.at)[1] # 0
            /\ ExpectedToken(lx_src, NextMatch(lx_src, lx_out.line_no, lx_out.at)).closed
            /\ lx_out'.tok.s =
                 ExpectedToken(lx_src, NextMatch(lx_src, lx_out.line_no, lx_out.at)).s
            /\ <<lx_out'.line_no, lx_out'.at>> =
                 ExpectedToken(lx_src, NextMatch(lx_src, lx_out.line_no, lx_out.at)).place
            /\ lx_toks' = Append(lx_toks, lx_out'.tok)
       /\ lx_op' = "end" =>
            NextMatch(lx_src, lx_out.line_no, lx_out.at) = <<0, 0>>]_vars

\* A doc-string or block comment that began on the first line and was
\* closed on the second was emitted, and after it a token that stands
\* behind its closing delimiter on that second line.
C21_Witness ==
    /\ Len(lx_src) = 2
    /\ Len(lx_toks) >= 2
    /\ \E i \in 1..(Len(lx_toks) - 1) :
          /\ lx_toks[i].gid \in {1, 2}
          /\ lx_toks[i].line_no = 2
          /\ \E j \in 1..Len(lx_toks[i].s) : lx_toks[i].s[j] = Newline
          /\ lx_toks[i + 1].gid = 24
          /\ lx_toks[i + 1].line_no = 2

========================================================================
